---- MODULE Spec2Model ----
(***************************************************************************)
(* MazeLock (src/mazelock.c): a grid of cells shared by two worker threads *)
(* under one mutex.  The generation thread fills the grid at random under  *)
(* placement rules and puts one entry and one exit on the border; the      *)
(* path finding thread runs a depth-first search from the entry.  main     *)
(* creates both threads, waits for 'q', cancels and joins them, then       *)
(* destroys the mutex and frees the grid.                                  *)
(***************************************************************************)
EXTENDS Integers, Sequences, FiniteSets, TLC

\* Cell values, src/mazelock.c:15-20.  PATH is never written by the code; in
\* every branch of the code a byte that is none of the other five behaves as
\* PATH does, so PATH also stands for any such byte of uninitialised memory.
ENTRY == "S"
EXIT == "E"
OPEN == " "
CLOSED == "X"
VISITED == "."
PATH == "P"

CellValues == {ENTRY, EXIT, OPEN, CLOSED, VISITED, PATH}

\* rand() returns a value in 0..RAND_MAX.  random_value = rand() / RAND_MAX is
\* kept as its numerator, and density as the numerator of density * RAND_MAX.
RAND_MAX == 2

\* The threads.
Gen == "matrix_generation_thread"
Finder == "path_finding_thread"
Main == "main"
Workers == {Gen, Finder}

VARIABLES
    ROWS,           \* global ROWS, read by scanf
    COLS,           \* global COLS, read by scanf
    density,        \* global density, read by scanf (numerator over RAND_MAX)
    matrix,         \* the grid: [row, col] -> cell value
    allocated,      \* the grid's storage is allocated (not yet freed)
    matrix_mutex,   \* "unlocked", the thread that holds it, or "destroyed"
    pc,             \* each thread's position in its code
    cancel,         \* per worker: a pthread_cancel request is pending
    initial,        \* the generation thread has not yet left its initial pass
    row,            \* randomize_matrix's loop variables
    col,
    entry,          \* find_path's locals <<entry_row, entry_col>>
    path,           \* find_path's local Path (the outcome of dfs)
    visits,         \* the cells dfs marked VISITED in the current pass, in order
    searched        \* history: a search marked cells since the last generation pass

vars == <<ROWS, COLS, density, matrix, allocated, matrix_mutex, pc, cancel,
          initial, row, col, entry, path, visits, searched>>

\* The cells <<row, col>>, rows and columns numbered from 0 as in the code.
Cells == (0 .. ROWS - 1) \X (0 .. COLS - 1)

\* char **matrix is a sequence of rows: matrix[row][col] is at(matrix, row, col).
at(m, r, c) == m[r + 1][c + 1]

\* The grid m with m[row][col] = v.
with(m, r, c, v) == [m EXCEPT ![r + 1][c + 1] = v]

\* Every grid whose cells hold values of the set.
Grids(values) == [1 .. ROWS -> [1 .. COLS -> values]]

InGrid(r, c) == r >= 0 /\ r < ROWS /\ c >= 0 /\ c < COLS

\* The border test of place_entry_exit_points, randomize_matrix and find_path.
IsBorder(r, c) == r = 0 \/ r = ROWS - 1 \/ c = 0 \/ c = COLS - 1

\* Row-major position of a cell: the order of every "for row, for col" scan.
ScanIndex(r, c) == r * COLS + c

----------------------------------------------------------------------------
(* Generation                                                               *)

\* count_adjacent_open_cells without the cell above.
count_without_up(m, r, c) ==
    (IF r < ROWS - 1 /\ at(m, r + 1, c) = OPEN THEN 1 ELSE 0)
  + (IF c > 0 /\ at(m, r, c - 1) = OPEN THEN 1 ELSE 0)
  + (IF c < COLS - 1 /\ at(m, r, c + 1) = OPEN THEN 1 ELSE 0)

count_adjacent_open_cells(m, r, c) ==
    (IF r > 0 /\ at(m, r - 1, c) = OPEN THEN 1 ELSE 0)
  + (IF r < ROWS - 1 /\ at(m, r + 1, c) = OPEN THEN 1 ELSE 0)
  + (IF c > 0 /\ at(m, r, c - 1) = OPEN THEN 1 ELSE 0)
  + (IF c < COLS - 1 /\ at(m, r, c + 1) = OPEN THEN 1 ELSE 0)

\* is_valid_open_cell_placement without the checks two steps away.
is_valid_without_two_steps(m, r, c) ==
    /\ ~(at(m, r, c) = ENTRY \/ at(m, r, c) = EXIT)
    /\ ~(count_adjacent_open_cells(m, r, c) > 1)
    /\ ~(\/ (r > 0 /\ r < ROWS - 1
               /\ at(m, r - 1, c) = OPEN /\ at(m, r + 1, c) = OPEN)
         \/ (c > 0 /\ c < COLS - 1
               /\ at(m, r, c - 1) = OPEN /\ at(m, r, c + 1) = OPEN)
         \/ (r > 0 /\ r < ROWS - 1 /\ c > 0 /\ c < COLS - 1
               /\ at(m, r - 1, c - 1) = OPEN /\ at(m, r + 1, c + 1) = OPEN)
         \/ (r > 0 /\ r < ROWS - 1 /\ c > 0 /\ c < COLS - 1
               /\ at(m, r - 1, c + 1) = OPEN /\ at(m, r + 1, c - 1) = OPEN))

is_valid_open_cell_placement(m, r, c) ==
    /\ ~(at(m, r, c) = ENTRY \/ at(m, r, c) = EXIT)
    /\ ~(count_adjacent_open_cells(m, r, c) > 1)
    /\ ~(\/ (r > 0 /\ r < ROWS - 1
               /\ at(m, r - 1, c) = OPEN /\ at(m, r + 1, c) = OPEN)
         \/ (c > 0 /\ c < COLS - 1
               /\ at(m, r, c - 1) = OPEN /\ at(m, r, c + 1) = OPEN)
         \/ (r > 0 /\ r < ROWS - 1 /\ c > 0 /\ c < COLS - 1
               /\ at(m, r - 1, c - 1) = OPEN /\ at(m, r + 1, c + 1) = OPEN)
         \/ (r > 0 /\ r < ROWS - 1 /\ c > 0 /\ c < COLS - 1
               /\ at(m, r - 1, c + 1) = OPEN /\ at(m, r + 1, c - 1) = OPEN))
    /\ ~(r > 1 /\ at(m, r - 2, c) = OPEN /\ at(m, r - 1, c) = OPEN)
    /\ ~(r < ROWS - 2 /\ at(m, r + 2, c) = OPEN /\ at(m, r + 1, c) = OPEN)
    /\ ~(c > 1 /\ at(m, r, c - 2) = OPEN /\ at(m, r, c - 1) = OPEN)
    /\ ~(c < COLS - 2 /\ at(m, r, c + 2) = OPEN /\ at(m, r, c + 1) = OPEN)

\* A fill that leaves a cell it does not open as it was.
fill_value_or_previous(m, r, c, random_value) ==
    IF random_value <= density /\ is_valid_open_cell_placement(m, r, c)
    THEN OPEN
    ELSE at(m, r, c)

\* The value randomize_matrix gives cell (r, c) when rand() drew random_value.
fill_value(m, r, c, random_value) ==
    IF random_value <= density /\ is_valid_open_cell_placement(m, r, c)
    THEN OPEN
    ELSE CLOSED

\* The cell the scan "if ENTRY ... else if EXIT ..." leaves in its variables:
\* the last cell in row-major order that holds v, or <<-1, -1>>.
last_cell_with(m, v) ==
    IF \E p \in Cells : at(m, p[1], p[2]) = v
    THEN CHOOSE p \in Cells :
            /\ at(m, p[1], p[2]) = v
            /\ \A q \in Cells :
                 at(m, q[1], q[2]) = v
                     => ScanIndex(q[1], q[2]) <= ScanIndex(p[1], p[2])
    ELSE <<-1, -1>>

\* The previous entry and exit left where they are.
keep_previous_points(m) == m

\* "Remove the previous entry and exit points only if they have been found".
remove_previous_points(m) ==
    LET entry_cell == last_cell_with(m, ENTRY)
        exit_cell == last_cell_with(m, EXIT)
        removed(r, c) ==
            IF (entry_cell[1] # -1 /\ entry_cell[2] # -1 /\ <<r, c>> = entry_cell)
               \/ (exit_cell[1] # -1 /\ exit_cell[2] # -1 /\ <<r, c>> = exit_cell)
            THEN CLOSED
            ELSE at(m, r, c)
    IN  [i \in 1 .. ROWS |-> [j \in 1 .. COLS |-> removed(i - 1, j - 1)]]

edge_length == 2 * (ROWS + COLS) - 4

\* The value of place_entry_exit_points' counter when its scan is at (r, c):
\* the number of border cells before (r, c) in row-major order.
counter_at(r, c) ==
    Cardinality({q \in Cells : /\ IsBorder(q[1], q[2])
                               /\ ScanIndex(q[1], q[2]) < ScanIndex(r, c)})

place_entry_exit_points(m, entry_position, exit_position) ==
    LET placed(r, c) ==
            IF IsBorder(r, c) /\ counter_at(r, c) = entry_position
            THEN ENTRY
            ELSE IF IsBorder(r, c) /\ counter_at(r, c) = exit_position
            THEN EXIT
            ELSE at(m, r, c)
    IN  [i \in 1 .. ROWS |-> [j \in 1 .. COLS |-> placed(i - 1, j - 1)]]

----------------------------------------------------------------------------
(* Search                                                                   *)

\* "Path path = {.found = false}": the other members are zero-initialised.
NoPath == [start_x |-> 0, start_y |-> 0, end_x |-> 0, end_y |-> 0,
           found |-> FALSE]

\* dfs's four recursive calls, in the order of the initialiser list:
\* up, down, left, right.
\* A right neighbour that is the cell itself.
DirColWithoutRight(c, i) == IF i = 3 THEN c - 1 ELSE c

DirRow(r, i) == IF i = 1 THEN r - 1 ELSE IF i = 2 THEN r + 1 ELSE r
DirCol(c, i) == IF i = 3 THEN c - 1 ELSE IF i = 4 THEN c + 1 ELSE c

\* The four calls sit in one initialiser list, whose expressions C leaves
\* indeterminately sequenced: a build evaluates them in some order, here
\* first to last or last to first.  directions[i] is the i-th call's result
\* whatever the order of evaluation.
EvaluationOrders == {<<1, 2, 3, 4>>, <<4, 3, 2, 1>>}

\* The first i with directions[i].found, or 0: the loop "for i ... break".
first_found(directions) ==
    IF \E i \in 1 .. 4 : directions[i].found
    THEN CHOOSE i \in 1 .. 4 :
            /\ directions[i].found
            /\ \A j \in 1 .. i - 1 : ~directions[j].found
    ELSE 0

\* A test that lets dfs walk into VISITED cells.
rejected_closed_only(m, r, c) == at(m, r, c) = CLOSED

\* Line 361: dfs turns back at a CLOSED or VISITED cell.
rejected(m, r, c) == at(m, r, c) = CLOSED \/ at(m, r, c) = VISITED

\* The value of a set of one element: binds the result of a call once.
only(S) == CHOOSE x \in S : TRUE

\* dfs(matrix, row, col), with the grid and the list of marked cells threaded
\* through the calls.  No call can mark once more than ROWS * COLS cells are
\* on the list: the cut keeps the evaluation finite and is never taken as long
\* as no cell is marked twice.  explore evaluates the calls of the initialiser
\* list from the k-th of the order on, each on the grid the one before left.
RECURSIVE dfs(_, _, _, _, _), explore(_, _, _, _, _)
explore(s, r, c, order, k) ==
    IF k > 4
    THEN s
    ELSE only({explore([m |-> d.m, log |-> d.log,
                        directions |->
                            [s.directions EXCEPT ![order[k]] = d.path]],
                       r, c, order, k + 1) :
               d \in {dfs(s.m, s.log, DirRow(r, order[k]),
                          DirCol(c, order[k]), order)}})

\* A dfs that hands up the start of the direction's path with its end.
dfs_start_of_direction(m, log, r, c, order) ==
    IF r < 0 \/ r >= ROWS \/ c < 0 \/ c >= COLS
    THEN [m |-> m, log |-> log, path |-> NoPath]
    ELSE IF at(m, r, c) = EXIT
    THEN [m |-> m, log |-> log,
          path |-> [start_x |-> r, start_y |-> c, end_x |-> r, end_y |-> c,
                    found |-> TRUE]]
    ELSE IF rejected(m, r, c)
    THEN [m |-> m, log |-> log, path |-> NoPath]
    ELSE IF Len(log) > ROWS * COLS
    THEN [m |-> m, log |-> log, path |-> NoPath]
    ELSE only({LET i == first_found(s.directions)
               IN  [m |-> s.m, log |-> s.log,
                    path |-> IF i # 0 THEN s.directions[i] ELSE NoPath] :
               s \in {explore([m |-> with(m, r, c, VISITED),
                               log |-> Append(log, <<r, c>>),
                               directions |-> [i \in 1 .. 4 |-> NoPath]],
                              r, c, order, 1)}})

dfs(m, log, r, c, order) ==
    IF r < 0 \/ r >= ROWS \/ c < 0 \/ c >= COLS
    THEN [m |-> m, log |-> log, path |-> NoPath]
    ELSE IF at(m, r, c) = EXIT
    THEN [m |-> m, log |-> log,
          path |-> [start_x |-> r, start_y |-> c, end_x |-> r, end_y |-> c,
                    found |-> TRUE]]
    ELSE IF rejected(m, r, c)
    THEN [m |-> m, log |-> log, path |-> NoPath]
    ELSE IF Len(log) > ROWS * COLS
    THEN [m |-> m, log |-> log, path |-> NoPath]
    ELSE only({LET i == first_found(s.directions)
               IN  [m |-> s.m, log |-> s.log,
                    path |-> IF i # 0
                             THEN [start_x |-> r, start_y |-> c,
                                   end_x |-> s.directions[i].end_x,
                                   end_y |-> s.directions[i].end_y,
                                   found |-> TRUE]
                             ELSE NoPath] :
               s \in {explore([m |-> with(m, r, c, VISITED),
                               log |-> Append(log, <<r, c>>),
                               directions |-> [i \in 1 .. 4 |-> NoPath]],
                              r, c, order, 1)}})

\* find_path's scan: the first border cell in row-major order that holds
\* ENTRY, or <<-1, -1>>.
find_entry(m) ==
    IF \E p \in Cells : IsBorder(p[1], p[2]) /\ at(m, p[1], p[2]) = ENTRY
    THEN CHOOSE p \in Cells :
            /\ IsBorder(p[1], p[2]) /\ at(m, p[1], p[2]) = ENTRY
            /\ \A q \in Cells :
                 (IsBorder(q[1], q[2]) /\ at(m, q[1], q[2]) = ENTRY)
                     => ScanIndex(p[1], p[2]) <= ScanIndex(q[1], q[2])
    ELSE <<-1, -1>>

\* find_path up to its printf: the grid it leaves, its locals, the marked cells.
find_path(m, order) ==
    LET e == find_entry(m)
    IN  IF e[1] # -1 /\ e[2] # -1
        THEN LET s == dfs(m, <<>>, e[1], e[2], order)
             IN  [m |-> s.m, log |-> s.log, entry |-> e, path |-> s.path]
        ELSE [m |-> m, log |-> <<>>, entry |-> e, path |-> NoPath]

\* The line find_path prints.
Message(e, p) ==
    IF e[1] # -1 /\ e[2] # -1
    THEN IF p.found THEN "Partial path found" ELSE "No path found."
    ELSE "Entry point not found."

----------------------------------------------------------------------------
(* The mutex and cancellation                                               *)

\* A lock that does not wait.
lock_without_waiting(t) == matrix_mutex' = t

\* A join that does not wait.
join_without_waiting(t) == TRUE

\* pthread_mutex_lock(&matrix_mutex) returns to thread t only when no thread
\* holds the mutex.  It is not a cancellation point.
pthread_mutex_lock(t) ==
    /\ matrix_mutex = "unlocked"
    /\ matrix_mutex' = t

pthread_mutex_unlock(t) ==
    /\ matrix_mutex = t
    /\ matrix_mutex' = "unlocked"

\* pthread_join(t) returns only once thread t has terminated.
pthread_join(t) == pc[t] = "stopped"

\* Where each worker calls a cancellation point: sleep is one, and the stdio
\* calls of display_matrix and find_path (printf, putchar, fputs) may be.
CancellationPoints(t) ==
    IF t = Gen THEN {"display", "sleep"} ELSE {"print", "sleep"}

\* Positions inside a pass over the grid.
GenPass == {"generate", "fill", "remove", "place"}
FinderPass == {"find_path", "print"}

Goto(t, label) == pc' = [pc EXCEPT ![t] = label]

----------------------------------------------------------------------------
(* matrix_generation_thread_func                                            *)

\* Line 328: the lock before the initial generate_matrix.
GenLockInitial ==
    /\ pc[Gen] = "lock_initial"
    /\ pthread_mutex_lock(Gen)
    /\ Goto(Gen, "generate")
    /\ UNCHANGED <<ROWS, COLS, density, matrix, allocated, cancel, initial,
                   row, col, entry, path, visits, searched>>

\* generate_matrix, lines 275-279: every cell CLOSED, then randomize_matrix.
generate_matrix ==
    /\ pc[Gen] = "generate"
    /\ matrix' = [r \in 1 .. ROWS |-> [c \in 1 .. COLS |-> CLOSED]]
    /\ row' = 0
    /\ col' = 0
    /\ Goto(Gen, "fill")
    /\ UNCHANGED <<ROWS, COLS, density, allocated, matrix_mutex, cancel,
                   initial, entry, path, visits, searched>>

\* Line 332: the lock of the loop, then randomize_matrix starts its scan.
GenLock ==
    /\ pc[Gen] = "lock"
    /\ pthread_mutex_lock(Gen)
    /\ row' = 0
    /\ col' = 0
    /\ Goto(Gen, "fill")
    /\ UNCHANGED <<ROWS, COLS, density, matrix, allocated, cancel, initial,
                   entry, path, visits, searched>>

\* randomize_matrix, lines 232-245: one iteration of the fill loop at
\* (row, col).  A border cell holding ENTRY or EXIT is skipped and no number
\* is drawn for it.
randomize_cell ==
    /\ pc[Gen] = "fill"
    /\ IF IsBorder(row, col) /\ (at(matrix, row, col) = ENTRY
                                 \/ at(matrix, row, col) = EXIT)
       THEN matrix' = matrix
       ELSE \E random_value \in 0 .. RAND_MAX :
               matrix' = with(matrix, row, col,
                                 fill_value(matrix, row, col, random_value))
    /\ col' = IF col + 1 < COLS THEN col + 1 ELSE 0
    /\ row' = IF col + 1 < COLS THEN row ELSE row + 1
    /\ Goto(Gen, IF col + 1 < COLS \/ row + 1 < ROWS THEN "fill" ELSE "remove")
    /\ UNCHANGED <<ROWS, COLS, density, allocated, matrix_mutex, cancel,
                   initial, entry, path, visits, searched>>

\* randomize_matrix, lines 247-265: the scan for the previous entry and exit,
\* which are then set CLOSED.
randomize_remove ==
    /\ pc[Gen] = "remove"
    /\ matrix' = remove_previous_points(matrix)
    /\ Goto(Gen, "place")
    /\ UNCHANGED <<ROWS, COLS, density, allocated, matrix_mutex, cancel,
                   initial, row, col, entry, path, visits, searched>>

\* randomize_matrix, line 267: place_entry_exit_points draws two distinct
\* positions on the border (rand() % edge_length: any position, RAND_MAX
\* being far above edge_length; the second is drawn again until it differs).
randomize_place ==
    /\ pc[Gen] = "place"
    /\ \E entry_position \in 0 .. edge_length - 1 :
         \E exit_position \in (0 .. edge_length - 1) \ {entry_position} :
            matrix' = place_entry_exit_points(matrix, entry_position,
                                              exit_position)
    /\ Goto(Gen, "unlock")
    /\ UNCHANGED <<ROWS, COLS, density, allocated, matrix_mutex, cancel,
                   initial, row, col, entry, path, visits, searched>>

\* Lines 330 and 334: the unlock after a pass.  After the initial pass the
\* thread enters the loop; in the loop it goes on to display_matrix.
GenUnlock ==
    /\ pc[Gen] = "unlock"
    /\ pthread_mutex_unlock(Gen)
    /\ Goto(Gen, IF initial THEN "lock" ELSE "display")
    /\ initial' = FALSE
    /\ searched' = FALSE
    /\ UNCHANGED <<ROWS, COLS, density, matrix, allocated, cancel, row, col,
                   entry, path, visits>>

\* Line 335: display_matrix reads every cell, the mutex not held.  What it
\* prints is not part of the state.
display_matrix ==
    /\ pc[Gen] = "display"
    /\ Goto(Gen, "sleep")
    /\ UNCHANGED <<ROWS, COLS, density, matrix, allocated, matrix_mutex,
                   cancel, initial, row, col, entry, path, visits, searched>>

\* Line 336: sleep(2) returns, no cancellation request pending.
GenSleep ==
    /\ pc[Gen] = "sleep"
    /\ ~cancel[Gen]
    /\ Goto(Gen, "lock")
    /\ UNCHANGED <<ROWS, COLS, density, matrix, allocated, matrix_mutex,
                   cancel, initial, row, col, entry, path, visits, searched>>

----------------------------------------------------------------------------
(* path_finding_thread_func                                                 *)

\* Line 423.
FinderLock ==
    /\ pc[Finder] = "lock"
    /\ pthread_mutex_lock(Finder)
    /\ Goto(Finder, "find_path")
    /\ UNCHANGED <<ROWS, COLS, density, matrix, allocated, cancel, initial,
                   row, col, entry, path, visits, searched>>

\* find_path, lines 387-405: the scan for the entry and the whole dfs.
FinderSearch ==
    /\ pc[Finder] = "find_path"
    /\ \E order \in EvaluationOrders :
         \E s \in {find_path(matrix, order)} :
             /\ matrix' = s.m
             /\ entry' = s.entry
             /\ path' = s.path
             /\ visits' = s.log
             /\ searched' = (searched \/ s.log # <<>>)
    /\ Goto(Finder, "print")
    /\ UNCHANGED <<ROWS, COLS, density, allocated, matrix_mutex, cancel,
                   initial, row, col>>

\* find_path, lines 406-413: the printf of the outcome, and the return.
FinderPrint ==
    /\ pc[Finder] = "print"
    /\ entry' = <<-1, -1>>
    /\ path' = NoPath
    /\ visits' = <<>>
    /\ Goto(Finder, "unlock")
    /\ UNCHANGED <<ROWS, COLS, density, matrix, allocated, matrix_mutex,
                   cancel, initial, row, col, searched>>

\* Line 425.
FinderUnlock ==
    /\ pc[Finder] = "unlock"
    /\ pthread_mutex_unlock(Finder)
    /\ Goto(Finder, "sleep")
    /\ UNCHANGED <<ROWS, COLS, density, matrix, allocated, cancel, initial,
                   row, col, entry, path, visits, searched>>

\* Line 426.
FinderSleep ==
    /\ pc[Finder] = "sleep"
    /\ ~cancel[Finder]
    /\ Goto(Finder, "lock")
    /\ UNCHANGED <<ROWS, COLS, density, matrix, allocated, matrix_mutex,
                   cancel, initial, row, col, entry, path, visits, searched>>

----------------------------------------------------------------------------
(* Cancellation and main                                                    *)

\* A worker with a cancellation request pending terminates at a cancellation
\* point, whatever it holds.  At sleep it has to; at a stdio call it may.
Cancelled(t) ==
    /\ cancel[t]
    /\ pc[t] \in CancellationPoints(t)
    /\ Goto(t, "stopped")
    /\ UNCHANGED <<ROWS, COLS, density, matrix, allocated, matrix_mutex,
                   cancel, initial, row, col, entry, path, visits, searched>>

GenCancelled == Cancelled(Gen)

FinderCancelled == Cancelled(Finder)

\* Lines 86-89: the user types 'q'.
MainQuit ==
    /\ pc[Main] = "getchar"
    /\ Goto(Main, "cancel_generation")
    /\ UNCHANGED <<ROWS, COLS, density, matrix, allocated, matrix_mutex,
                   cancel, initial, row, col, entry, path, visits, searched>>

\* Line 91.
MainCancelGeneration ==
    /\ pc[Main] = "cancel_generation"
    /\ cancel' = [cancel EXCEPT ![Gen] = TRUE]
    /\ Goto(Main, "cancel_path_finding")
    /\ UNCHANGED <<ROWS, COLS, density, matrix, allocated, matrix_mutex,
                   initial, row, col, entry, path, visits, searched>>

\* Line 92.
MainCancelPathFinding ==
    /\ pc[Main] = "cancel_path_finding"
    /\ cancel' = [cancel EXCEPT ![Finder] = TRUE]
    /\ Goto(Main, "join_generation")
    /\ UNCHANGED <<ROWS, COLS, density, matrix, allocated, matrix_mutex,
                   initial, row, col, entry, path, visits, searched>>

\* Line 94.
MainJoinGeneration ==
    /\ pc[Main] = "join_generation"
    /\ pthread_join(Gen)
    /\ Goto(Main, "join_path_finding")
    /\ UNCHANGED <<ROWS, COLS, density, matrix, allocated, matrix_mutex,
                   cancel, initial, row, col, entry, path, visits, searched>>

\* Line 95.
MainJoinPathFinding ==
    /\ pc[Main] = "join_path_finding"
    /\ pthread_join(Finder)
    /\ Goto(Main, "destroy")
    /\ UNCHANGED <<ROWS, COLS, density, matrix, allocated, matrix_mutex,
                   cancel, initial, row, col, entry, path, visits, searched>>

\* Line 97.
MainDestroy ==
    /\ pc[Main] = "destroy"
    /\ matrix_mutex' = "destroyed"
    /\ Goto(Main, "free")
    /\ UNCHANGED <<ROWS, COLS, density, matrix, allocated, cancel, initial,
                   row, col, entry, path, visits, searched>>

\* Line 98: free_matrix.
free_matrix ==
    /\ pc[Main] = "free"
    /\ allocated' = FALSE
    /\ Goto(Main, "done")
    /\ UNCHANGED <<ROWS, COLS, density, matrix, matrix_mutex, cancel,
                   initial, row, col, entry, path, visits, searched>>

----------------------------------------------------------------------------
(* Specifications                                                           *)

\* The state after main has created both threads (line 84): the grid is
\* allocated by malloc and not initialised, so it holds any values.
InitWith(max_rows, max_cols, uninitialised, densities) ==
    /\ ROWS \in 2 .. max_rows
    /\ COLS \in 2 .. max_cols
    /\ density \in densities
    /\ matrix \in Grids(uninitialised)
    /\ allocated = TRUE
    /\ matrix_mutex = "unlocked"
    /\ pc = [t \in {Gen, Finder, Main} |->
                IF t = Gen THEN "lock_initial"
                ELSE IF t = Finder THEN "lock" ELSE "getchar"]
    /\ cancel = [t \in Workers |-> FALSE]
    /\ initial = TRUE
    /\ row = 0
    /\ col = 0
    /\ entry = <<-1, -1>>
    /\ path = NoPath
    /\ visits = <<>>
    /\ searched = FALSE

GenNext ==
    \/ GenLockInitial
    \/ generate_matrix
    \/ GenLock
    \/ randomize_cell
    \/ randomize_remove
    \/ randomize_place
    \/ GenUnlock
    \/ display_matrix
    \/ GenSleep

FinderNext ==
    \/ FinderLock
    \/ FinderSearch
    \/ FinderPrint
    \/ FinderUnlock
    \/ FinderSleep

\* main once the user has typed 'q'.
MainShutdown ==
    \/ MainCancelGeneration
    \/ MainCancelPathFinding
    \/ MainJoinGeneration
    \/ MainJoinPathFinding
    \/ MainDestroy
    \/ free_matrix

MainNext ==
    \/ MainQuit
    \/ MainShutdown

\* The whole program, on the smallest grid, of any uninitialised content and
\* with any density.
ProgramRows == 2
ProgramCols == 2

Init == InitWith(ProgramRows, ProgramCols, CellValues, 0 .. RAND_MAX)

Next ==
    \/ GenNext
    \/ FinderNext
    \/ GenCancelled
    \/ FinderCancelled
    \/ MainNext

Spec == Init /\ [][Next]_vars

\* The whole program under the scheduler's fairness: a thread that can take a
\* step takes one; the user need not ever type 'q'.  One uninitialised
\* content and the default density: shutdown does not read the grid.
InitFair == InitWith(ProgramRows, ProgramCols, {PATH}, {RAND_MAX \div 2})

SpecFair ==
    /\ InitFair
    /\ [][Next]_vars
    /\ WF_vars(GenNext \/ GenCancelled)
    /\ WF_vars(FinderNext \/ FinderCancelled)
    /\ WF_vars(MainShutdown)

\* The two workers while main waits in getchar, on grids large enough for
\* every placement rule to matter.  generate_matrix overwrites whatever the
\* grid held, so one uninitialised content stands for all of them here; the
\* density is the source's default, 0.5.
GenerationRows == 3
GenerationCols == 3

InitGeneration ==
    InitWith(GenerationRows, GenerationCols, {PATH}, {RAND_MAX \div 2})

NextGeneration ==
    \/ GenNext
    \/ FinderNext

SpecGeneration == InitGeneration /\ [][NextGeneration]_vars

\* The path finding thread alone, before the generation thread has run: it
\* searches whatever the uninitialised grid holds.
SearchRows == 2
SearchCols == 3

InitSearch == InitWith(SearchRows, SearchCols, CellValues, {RAND_MAX \div 2})

NextSearch == FinderNext

SpecSearch == InitSearch /\ [][NextSearch]_vars

----------------------------------------------------------------------------
(* Properties                                                               *)

\* The generation thread has finished a pass and not yet released the mutex.
AfterGeneration == pc[Gen] = "unlock"

Holds(r, c, v) == InGrid(r, c) /\ at(matrix, r, c) = v

\* The four neighbours of (r, c) that are in the grid.
Neighbours(r, c) ==
    {q \in {<<r - 1, c>>, <<r + 1, c>>, <<r, c - 1>>, <<r, c + 1>>} :
        InGrid(q[1], q[2])}

OpenAmong(cells) == Cardinality({q \in cells : at(matrix, q[1], q[2]) = OPEN})

NextToEntryOrExit(r, c) ==
    \E q \in Neighbours(r, c) :
        at(matrix, q[1], q[2]) = ENTRY \/ at(matrix, q[1], q[2]) = EXIT

CellsHolding(v) == {p \in Cells : at(matrix, p[1], p[2]) = v}

\* C1: in every reachable state at most one worker is inside a pass that
\* mutates the grid: the generation thread is not inside generate_matrix or
\* randomize_matrix while the path finding thread is inside find_path.
C1_MutualExclusion == ~(pc[Gen] \in GenPass /\ pc[Finder] \in FinderPass)

\* A repeated generation pass runs while the path finding thread waits for the
\* mutex.
C1_Witness ==
    /\ pc[Gen] = "fill"
    /\ ~initial
    /\ matrix_mutex = Gen
    /\ pc[Finder] = "lock"

\* C2: immediately after every generation pass, whatever the grid held before
\* it, the grid holds exactly one ENTRY and exactly one EXIT, both on the
\* border (and, being two cells of one grid, different cells).
C2_OneEntryOneExit ==
    AfterGeneration =>
        /\ Cardinality(CellsHolding(ENTRY)) = 1
        /\ Cardinality(CellsHolding(EXIT)) = 1
        /\ \A p \in CellsHolding(ENTRY) \cup CellsHolding(EXIT) :
             IsBorder(p[1], p[2])
        /\ CellsHolding(ENTRY) \cap CellsHolding(EXIT) = {}

\* A repeated pass has run on a grid in which a search had overwritten the
\* entry and left VISITED marks.
C2_Witness ==
    /\ AfterGeneration
    /\ ~initial
    /\ searched
    /\ Cardinality(CellsHolding(ENTRY)) = 1
    /\ Cardinality(CellsHolding(EXIT)) = 1

\* C3 as claimed: immediately after every generation pass, every OPEN cell
\* that is not next to the entry or the exit has at most one OPEN cell among
\* its four neighbours.
C3_AtMostOneOpenNeighbour ==
    AfterGeneration =>
        \A p \in CellsHolding(OPEN) :
            ~NextToEntryOrExit(p[1], p[2])
                => OpenAmong(Neighbours(p[1], p[2])) <= 1

\* C3 as amended: immediately after every generation pass, every OPEN cell
\* that is not next to the entry or the exit has at most one OPEN cell among
\* its upper and left neighbours, the two decided before it in the scan, and
\* at most two among all four.
C3_AtMostOneOpenBefore ==
    AfterGeneration =>
        \A p \in CellsHolding(OPEN) :
            ~NextToEntryOrExit(p[1], p[2])
                => /\ OpenAmong(Neighbours(p[1], p[2])
                                  \cap {<<p[1] - 1, p[2]>>, <<p[1], p[2] - 1>>}) <= 1
                   /\ OpenAmong(Neighbours(p[1], p[2])) <= 2

\* A pass has left an OPEN cell, away from the entry and the exit, with two
\* OPEN neighbours.
C3_Witness ==
    /\ AfterGeneration
    /\ \E p \in CellsHolding(OPEN) :
         /\ ~NextToEntryOrExit(p[1], p[2])
         /\ OpenAmong(Neighbours(p[1], p[2])) = 2

\* C4: immediately after every generation pass the grid holds no three
\* consecutive OPEN cells in one row and none in one column.
C4_NoThreeInLine ==
    AfterGeneration =>
        \A p \in Cells :
            /\ ~(Holds(p[1], p[2], OPEN) /\ Holds(p[1], p[2] + 1, OPEN)
                   /\ Holds(p[1], p[2] + 2, OPEN))
            /\ ~(Holds(p[1], p[2], OPEN) /\ Holds(p[1] + 1, p[2], OPEN)
                   /\ Holds(p[1] + 2, p[2], OPEN))

\* A repeated pass, on a grid a search had marked, has left two consecutive
\* OPEN cells in a row and two in a column, each followed by a third cell.
C4_Witness ==
    /\ AfterGeneration
    /\ ~initial
    /\ searched
    /\ \E p \in Cells :
         /\ Holds(p[1], p[2], OPEN) /\ Holds(p[1], p[2] + 1, OPEN)
         /\ Holds(p[1], p[2] + 2, CLOSED)
    /\ \E p \in Cells :
         /\ Holds(p[1], p[2], OPEN) /\ Holds(p[1] + 1, p[2], OPEN)
         /\ Holds(p[1] + 2, p[2], CLOSED)

\* C5: immediately after every generation pass, no OPEN cell that is not next
\* to the entry or the exit is the middle of three OPEN cells on a diagonal.
C5_NoThreeOnDiagonal ==
    AfterGeneration =>
        \A p \in CellsHolding(OPEN) :
            ~NextToEntryOrExit(p[1], p[2])
                => /\ ~(Holds(p[1] - 1, p[2] - 1, OPEN)
                          /\ Holds(p[1] + 1, p[2] + 1, OPEN))
                   /\ ~(Holds(p[1] - 1, p[2] + 1, OPEN)
                          /\ Holds(p[1] + 1, p[2] - 1, OPEN))

\* The cells reached from the cells of seen by steps to a neighbour that
\* holds one of the values.
RECURSIVE Flood(_, _, _)
Flood(m, seen, values) ==
    LET more == {q \in Cells \ seen :
                    /\ at(m, q[1], q[2]) \in values
                    /\ \E p \in seen : q \in Neighbours(p[1], p[2])}
    IN  IF more = {} THEN seen ELSE Flood(m, seen \cup more, values)

\* The reference answer for grid m: "entry not found" when no border cell
\* holds ENTRY; else "found" when an EXIT cell is a neighbour of the first
\* border ENTRY cell or of a cell reached from it through cells holding one of
\* the values; else "no path".
Reference(m, values) ==
    LET e == find_entry(m)
    IN  IF ~\E p \in Cells : IsBorder(p[1], p[2]) /\ at(m, p[1], p[2]) = ENTRY
        THEN "Entry point not found."
        ELSE IF \E x \in Cells :
                    /\ at(m, x[1], x[2]) = EXIT
                    /\ \E p \in Flood(m, {e}, values) : x \in Neighbours(p[1], p[2])
        THEN "Partial path found"
        ELSE "No path found."

\* The path finding thread runs find_path on a grid of OPEN, CLOSED, ENTRY and
\* EXIT cells only.
SearchesPlainGrid ==
    /\ pc[Finder] = "find_path"
    /\ pc'[Finder] = "print"
    /\ \A p \in Cells : at(matrix, p[1], p[2]) \in {OPEN, CLOSED, ENTRY, EXIT}

C7_NoCellMarkedTwice ==
    pc[Finder] = "print" =>
        /\ \A i, j \in 1 .. Len(visits) : i # j => visits[i] # visits[j]
        /\ Len(visits) <= ROWS * COLS

\* A pass has marked every cell of the grid, where every cell but the first
\* was reached again from a later neighbour.
C7_Witness ==
    /\ pc[Finder] = "print"
    /\ Len(visits) = ROWS * COLS
    /\ ROWS * COLS >= 6

\* Both workers have a cancellation request pending.
StopRequested == cancel[Gen] /\ cancel[Finder]

\* C8: after the stop request both workers come to a stop and main's joins
\* return, in every interleaving.
C8_StopTerminates ==
    StopRequested ~>
        (/\ pc[Gen] = "stopped"
         /\ pc[Finder] = "stopped"
         /\ pc[Main] \in {"destroy", "free", "done"})

\* C9: the mutex is destroyed and the grid freed only once both workers have
\* stopped, so no worker touches the grid or the mutex afterwards.
C9_ReleasedAfterWorkersStopped ==
    (matrix_mutex = "destroyed" \/ ~allocated)
        => (pc[Gen] = "stopped" /\ pc[Finder] = "stopped")

\* main has freed the grid.
C9_Witness == ~allocated /\ pc[Main] = "done"

\* C10: whenever a worker reads the grid (generating, searching, or rendering
\* in display_matrix), the other worker is not inside a pass.
C10_NoReadDuringPass ==
    /\ pc[Gen] \in GenPass \cup {"display"} => pc[Finder] \notin FinderPass
    /\ pc[Finder] \in FinderPass => pc[Gen] \notin GenPass

\* C11: every completed generation pass, the first included, is rendered once
\* before the next pass: the generation thread comes to the lock of a pass of
\* its loop only from the sleep that follows display_matrix.
C11_RenderedBeforeNextPass ==
    [][(pc[Gen] # "lock" /\ pc'[Gen] = "lock") => pc[Gen] = "sleep"]_vars

\* C12: the path finding thread reports the outcome of a pass only after it
\* has released the mutex: it prints nothing while it holds matrix_mutex.
C12_ReportsAfterRelease == pc[Finder] = "print" => matrix_mutex # Finder

\* The path finding thread runs find_path: the step from the lock to the print.
SearchPass == pc[Finder] = "find_path" /\ pc'[Finder] = "print"

\* C13: a search pass changes OPEN cells only, and only to VISITED: every cell
\* that held ENTRY, EXIT or CLOSED before the pass holds the same value after
\* it, so the grid keeps its entry.
C13_SearchMarksOpenOnly ==
    [][SearchPass =>
         \A p \in Cells :
            /\ at(matrix, p[1], p[2]) \in {ENTRY, EXIT, CLOSED}
                 => at(matrix', p[1], p[2]) = at(matrix, p[1], p[2])
            /\ at(matrix', p[1], p[2]) # at(matrix, p[1], p[2])
                 => (at(matrix, p[1], p[2]) = OPEN
                     /\ at(matrix', p[1], p[2]) = VISITED)]_vars

\* C14: immediately after every generation pass, repeated passes after any
\* number of search passes included, every cell holds OPEN, CLOSED, ENTRY or
\* EXIT: no VISITED and no PATH cell survives the pass.
C14_OnlyPlainCells ==
    AfterGeneration =>
        \A p \in Cells : at(matrix, p[1], p[2]) \in {OPEN, CLOSED, ENTRY, EXIT}

\* A repeated pass has run on a grid a search had marked, and has left OPEN
\* and CLOSED cells besides the entry and the exit.
C14_Witness ==
    /\ AfterGeneration
    /\ ~initial
    /\ searched
    /\ CellsHolding(OPEN) # {}
    /\ CellsHolding(CLOSED) # {}
    /\ CellsHolding(VISITED) = {}

\* The grid m as a pass that began by a reset would hold it when its scan is
\* at (r, c): the cells from (r, c) on in row-major order are CLOSED, but for
\* the previous entry and exit.
reset_from(m, r, c) ==
    [i \in 1 .. ROWS |-> [j \in 1 .. COLS |->
        IF ScanIndex(i - 1, j - 1) >= ScanIndex(r, c)
           /\ m[i][j] \notin {ENTRY, EXIT}
        THEN CLOSED
        ELSE m[i][j]]]

\* C15: every generation pass begins by a reset, so whether a cell becomes
\* OPEN depends on its draw, the density and the cells decided before it in
\* the same pass, not on what the previous grid held: the fill gives the cell
\* at (row, col) the value it would give it on the grid reset from there on.
C15_FillIgnoresPreviousGrid ==
    pc[Gen] = "fill" =>
        \A random_value \in 0 .. RAND_MAX :
            fill_value(matrix, row, col, random_value)
                = fill_value(reset_from(matrix, row, col), row, col,
                             random_value)

\* A depth-first search that tries up, down, left, right in this order and
\* explores no further direction of a cell once one has reached the exit:
\* the grid and the list of marked cells it leaves, and whether it reached
\* the exit.  ShortCircuitFrom tries the directions of (r, c) from the k-th on.
RECURSIVE ShortCircuitSearch(_, _, _, _), ShortCircuitFrom(_, _, _, _)
ShortCircuitFrom(s, r, c, k) ==
    IF k > 4 \/ s.found
    THEN s
    ELSE only({ShortCircuitFrom(d, r, c, k + 1) :
               d \in {ShortCircuitSearch(s.m, s.log, DirRow(r, k),
                                         DirCol(c, k))}})

ShortCircuitSearch(m, log, r, c) ==
    IF ~InGrid(r, c)
    THEN [m |-> m, log |-> log, found |-> FALSE]
    ELSE IF at(m, r, c) = EXIT
    THEN [m |-> m, log |-> log, found |-> TRUE]
    ELSE IF at(m, r, c) = CLOSED \/ at(m, r, c) = VISITED
    THEN [m |-> m, log |-> log, found |-> FALSE]
    ELSE ShortCircuitFrom([m |-> with(m, r, c, VISITED),
                           log |-> Append(log, <<r, c>>),
                           found |-> FALSE], r, c, 1)

\* The cells a short-circuiting search from the first border entry of m
\* marks, in order.
ShortCircuitMarks(m) ==
    LET e == find_entry(m)
    IN  IF e[1] # -1 /\ e[2] # -1
        THEN ShortCircuitSearch(m, <<>>, e[1], e[2]).log
        ELSE <<>>

\* C16: dfs tries the neighbours of a cell in the order up, down, left, right
\* and explores no further direction once one has reached the exit, so the
\* cells a search pass marks are, in order, those of the short-circuiting
\* search and no cell is marked after the exit has been reached.
C16_ShortCircuits ==
    [][SearchPass => visits' = ShortCircuitMarks(matrix)]_vars

\* C17: with density 0 a generation pass leaves no OPEN cell, whatever rand()
\* draws, the draw 0 included: every cell but the entry and the exit is CLOSED.
C17_DensityZeroAllClosed ==
    (AfterGeneration /\ density = 0) => CellsHolding(OPEN) = {}

\* C18: no worker comes to a stop while it holds the mutex, so the mutex is
\* never left locked by a stopped worker.
C18_StoppedWithoutLock ==
    \A t \in Workers : pc[t] = "stopped" => matrix_mutex # t

\* C19: no search pass starts before the first generation pass is complete:
\* the path finding thread is inside find_path only once the generation thread
\* has released the mutex after generate_matrix.
C19_SearchAfterFirstGeneration ==
    pc[Finder] \in FinderPass => ~initial

\* C20: whenever a search pass reports "found", the end it reports is a cell
\* that holds EXIT and the start it reports is the entry cell at which
\* find_path began the search, the first border ENTRY of the grid.
C20_ReportsEntryAndExit ==
    [][(SearchPass /\ path'.found) =>
         /\ <<path'.start_x, path'.start_y>> = find_entry(matrix)
         /\ <<path'.start_x, path'.start_y>> = entry'
         /\ at(matrix, path'.end_x, path'.end_y) = EXIT]_vars

\* A search from an entry away from the corner (0, 0) has reached, over two
\* more cells, an exit away from that corner as well.
C20_Witness ==
    /\ pc[Finder] = "print"
    /\ path.found
    /\ Len(visits) >= 3
    /\ entry # <<0, 0>>
    /\ <<path.start_x, path.start_y>> = entry
    /\ <<path.end_x, path.end_y>> # <<0, 0>>
    /\ at(matrix, path.end_x, path.end_y) = EXIT

====
